---- MODULE Spec2Model ----
(***************************************************************************)
(* rainbowbench (src/main.cpp): argument parsing, the hue table, the ramp  *)
(* buffer and its index, the render loop with its asynchronous signal      *)
(* flags, the throughput sampler and the console writes.                   *)
(*                                                                         *)
(* Strings are sequences of byte values.  C++ containers are 0-based, TLA+ *)
(* sequences 1-based: v[k] in the source is v[k + 1] here.  The POSIX      *)
(* branch of every #ifdef is the one modelled.                             *)
(***************************************************************************)
EXTENDS Integers, Sequences, FiniteSets, TLC

-----------------------------------------------------------------------------
(* Bounds of the model.                                                    *)

\* argv entries after the program name range over 0..MaxArgs
MaxArgs == 3
\* the count argument of a run; runs with more colours are not explored
MaxColors == 3
\* columns of the narrow terminal (the stats line is cut) and of the wide one
SmallCols == 1
WideCols == 21
\* rows of the wide terminal
MaxRows == 2
\* the loop starts a new tick only while i < MaxTicks
MaxTicks == 2
\* SIGWINCH / SIGINT deliveries per run
MaxResizes == 2
MaxInterrupts == 1
\* a tick lasts ShortTick milliseconds or a whole second
ShortTick == 600

-----------------------------------------------------------------------------
(* Program constants.                                                      *)

SignalState_Sigint == 1
SignalState_Sigwinch == 2

ColorMode_All == 0
ColorMode_Foreground == 1
ColorMode_Background == 2
ColorMode_None == 3

max_rainbow_colors == 1530

\* std::chrono::seconds(1), in milliseconds
OneSecond == 1000

\* char buffer[64] of rebuild_rainbow
CellBufferSize == 64

SetupSeq == <<27, 91, 63, 49, 48, 52, 57, 104, 27, 91, 63, 50, 53, 108>>

TeardownSeq ==
  <<27, 91, 63, 50, 48, 50, 54, 108, 27, 91, 63, 50, 53, 104,
    27, 91, 63, 49, 48, 52, 57, 108>>

FramePrefix ==
  <<27, 91, 63, 50, 48, 50, 54, 104, 27, 91, 72, 27, 91, 51, 57, 59, 52, 57, 109>>

FrameSuffix == <<27, 91, 63, 50, 48, 50, 54, 108>>

-----------------------------------------------------------------------------
(* Arithmetic and byte-string helpers.                                     *)

Min(a, b) == IF a <= b THEN a ELSE b

Max(a, b) == IF a >= b THEN a ELSE b

\* the clamp without its lower bound
Clamp_NoLower(v, lo, hi) == IF v > hi THEN hi ELSE v

\* std::clamp(v, lo, hi)
Clamp(v, lo, hi) == IF v < lo THEN lo ELSE IF v > hi THEN hi ELSE v

RECURSIVE Pow10(_)
Pow10(k) == IF k = 0 THEN 1 ELSE 10 * Pow10(k - 1)

\* printf("%d") of a non-negative integer
RECURSIVE Dec(_)
Dec(n) == IF n < 10 THEN <<48 + n>> ELSE Dec(n \div 10) \o <<48 + (n % 10)>>

\* the digits of n, zero-padded on the left to exactly w digits
RECURSIVE DecPad(_, _)
DecPad(n, w) == IF w = 0 THEN <<>> ELSE DecPad(n \div 10, w - 1) \o <<48 + (n % 10)>>

\* printf("%.<decimals>f") of the non-negative rational num/den: the value is held
\* exactly and a tie rounds up; the binary rounding of the float is not modelled
FormatFixed(num, den, decimals) ==
  LET scaled == (2 * num * Pow10(decimals) + den) \div (2 * den)
  IN  Dec(scaled \div Pow10(decimals)) \o <<46>> \o DecPad(scaled % Pow10(decimals), decimals)

\* strcmp(arg, lit) == 0
StrEq(arg, lit) == arg = lit

\* strncmp(arg, lit, Len(lit)) == 0
HasPrefix(arg, lit) == Len(arg) >= Len(lit) /\ SubSeq(arg, 1, Len(lit)) = lit

IsDecDigit(b) == b \in 48..57

IsHexDigit(b) == b \in 48..57 \/ b \in 65..70 \/ b \in 97..102

HexVal(b) == IF b \in 48..57 THEN b - 48 ELSE IF b \in 65..70 THEN b - 55 ELSE b - 87

\* the value of the longest prefix of decimal digits of s, 0 if there is none
RECURSIVE ParseDec(_, _)
ParseDec(s, acc) ==
  IF s = <<>> \/ ~IsDecDigit(Head(s)) THEN acc
  ELSE ParseDec(Tail(s), acc * 10 + (Head(s) - 48))

\* the value of the longest prefix of hexadecimal digits of s, 0 if there is none
RECURSIVE ParseHex(_, _)
ParseHex(s, acc) ==
  IF s = <<>> \/ ~IsHexDigit(Head(s)) THEN acc
  ELSE ParseHex(Tail(s), acc * 16 + HexVal(Head(s)))

\* isspace(b) in the C locale
IsSpace(b) == b = 32 \/ b \in 9..13

\* s without its leading white space
RECURSIVE SkipSpace(_)
SkipSpace(s) == IF s # <<>> /\ IsSpace(Head(s)) THEN SkipSpace(Tail(s)) ELSE s

\* s without one leading sign
SkipSign(s) == IF s # <<>> /\ Head(s) \in {43, 45} THEN Tail(s) ELSE s

\* the text has a minus sign after its white space
IsNegated(s) == LET t == SkipSpace(s) IN t # <<>> /\ Head(t) = 45

\* the unsigned negation 2^64 - v of strtoul and strtoull.  For 0 < v <= 2^63 it
\* is above `limit`, the largest number its reader compares it with, and is held
\* as limit + 1; the arguments of the model are short, so v stays far below 2^63
\* and the saturation at ULLONG_MAX is never reached.
Negated(v, limit) == IF v = 0 THEN 0 ELSE limit + 1

\* strtoull(s, &endptr, 10): white space, an optional sign, then digits
Strtoull(s, limit) ==
  LET v == ParseDec(SkipSign(SkipSpace(s)), 0)
  IN  IF IsNegated(s) THEN Negated(v, limit) ELSE v

\* s without a leading 0x or 0X that a hexadecimal digit follows
SkipHexPrefix(s) ==
  IF Len(s) >= 3 /\ s[1] = 48 /\ s[2] \in {88, 120} /\ IsHexDigit(s[3])
  THEN SubSeq(s, 3, Len(s))
  ELSE s

\* strtoul(s, &endptr, 16): white space, an optional sign, an optional 0x, then
\* hexadecimal digits
Strtoul16(s, limit) ==
  LET v == ParseHex(SkipHexPrefix(SkipSign(SkipSpace(s))), 0)
  IN  IF IsNegated(s) THEN Negated(v, limit) ELSE v

-----------------------------------------------------------------------------
(* The signal flag set.                                                    *)

\* state & flag
HasFlag(s, flag) == (s \div flag) % 2 = 1

\* signal_state.fetch_or(flag)
FetchOr(s, flag) == IF HasFlag(s, flag) THEN s ELSE s + flag

\* the empty flag set, as in signal_state.exchange(0)
NoFlags == 0

\* the flag set with no resize pending at startup
SignalStateInit_Empty == NoFlags

\* static std::atomic<uint8_t> signal_state{SignalState_Sigwinch}
SignalStateInit == SignalState_Sigwinch

\* a plain load in place of the exchange: the flags stay set
AfterExchange_Load(s, new) == s

\* signal_state after signal_state.exchange(new) (line 279)
AfterExchange(s, new) == new

-----------------------------------------------------------------------------
(* Command line (main, lines 77-126).                                      *)

Arg_fg == <<45, 102, 103>>

Arg_bg == <<45, 98, 103>>

Arg_ng == <<45, 110, 103>>

Arg_ch_prefix == <<45, 99, 104, 61>>

\* the bound 0x110000 of line 114
MaxOverride == 1114112

\* the bytes char_override holds after "-ch=<codepoint>"; `old` when no branch is taken.
\* In each branch the or-ed operands have no bit in common, so | is +, and
\* static_cast<char> keeps the value (it is below 256).
Utf8Override(codepoint, old) ==
  IF codepoint < 128 THEN <<codepoint>>
  ELSE IF codepoint < 2048 THEN <<192 + (codepoint \div 64), 128 + (codepoint % 64)>>
  ELSE IF codepoint < 65536 THEN
    <<224 + (codepoint \div 4096), 128 + ((codepoint \div 64) % 64), 128 + (codepoint % 64)>>
  ELSE IF codepoint <= MaxOverride THEN
    <<240 + (codepoint \div 262144), 128 + ((codepoint \div 4096) % 64),
      128 + ((codepoint \div 64) % 64), 128 + (codepoint % 64)>>
  ELSE old

\* the argc test of line 78
ArgcValid(argc) == ~(argc < 1 \/ argc > 3)

\* one iteration of the loop of lines 91-126
ApplyArg(cfg, arg) ==
  IF StrEq(arg, Arg_fg) THEN [cfg EXCEPT !.color_mode = ColorMode_Foreground]
  ELSE IF StrEq(arg, Arg_bg) THEN [cfg EXCEPT !.color_mode = ColorMode_Background]
  ELSE IF StrEq(arg, Arg_ng) THEN [cfg EXCEPT !.color_mode = ColorMode_None]
  ELSE IF HasPrefix(arg, Arg_ch_prefix) THEN
    [cfg EXCEPT !.char_override =
       Utf8Override(Strtoul16(SubSeq(arg, 5, Len(arg)), MaxOverride), cfg.char_override)]
  ELSE [cfg EXCEPT !.num_colors =
          Clamp(Strtoull(arg, max_rainbow_colors), 1, max_rainbow_colors)]

\* the values of lines 85-89
DefaultConfig ==
  [num_colors |-> max_rainbow_colors, color_mode |-> ColorMode_All, char_override |-> <<>>]

RECURSIVE ParseArgsFrom(_, _, _)
ParseArgsFrom(args, argv_index, cfg) ==
  IF argv_index > Len(args) THEN cfg
  ELSE ParseArgsFrom(args, argv_index + 1, ApplyArg(cfg, args[argv_index]))

ParseArgs(args) == ParseArgsFrom(args, 1, DefaultConfig)

-----------------------------------------------------------------------------
(* Hue table (main, lines 128-172).                                        *)

\* hh % 6 with h = i / n * 360 and hh = int(h / 60)
HueSector(i, n) == ((6 * i) \div n) % 6

\* 256 / 60 taken as the integer 4
HueV_IntegerScale(i, n) == (4 * 60 * ((6 * i) % n)) \div n

\* v rounded to the nearest integer, not cut
HueV_Rounded(i, n) == (256 * ((6 * i) % n) + (n \div 2)) \div n

\* v = int(256.0 / 60.0 * fmod(h, 60.0)); the doubles of the source give this
\* integer for every n in 1..1530 and i in 0..n-1
HueV(i, n) == (256 * ((6 * i) % n)) \div n

\* conversion of an int to uint8_t
U8(x) == x % 256

\* the switch of lines 136-169; <<>> stands for the default branch
HueToRgb(i, n) ==
  LET v == HueV(i, n)
      hh == HueSector(i, n)
  IN  CASE hh = 0 -> <<255, U8(v), 0>>
        [] hh = 1 -> <<U8(255 - v), 255, 0>>
        [] hh = 2 -> <<0, 255, U8(v)>>
        [] hh = 3 -> <<0, U8(255 - v), 255>>
        [] hh = 4 -> <<U8(v), 0, 255>>
        [] hh = 5 -> <<255, 0, U8(255 - v)>>
        [] OTHER -> <<>>

\* the first n entries of `colors`
ColorTable(n) == [k \in 1..n |-> HueToRgb(k - 1, n)]

-----------------------------------------------------------------------------
(* Ramp buffer and index (rebuild_rainbow, lines 180-222).                 *)

Rgb(c) == Dec(c[1]) \o <<59>> \o Dec(c[2]) \o <<59>> \o Dec(c[3])

FgOffset(n) == Max(1, (n + 5) \div 10)

\* the text snprintf formats for cell i (lines 192-211)
CellEscape(i, tbl, n, mode) ==
  IF mode = ColorMode_All THEN
    <<27, 91, 52, 56, 59, 50, 59>> \o Rgb(tbl[(i % n) + 1])
      \o <<59, 51, 56, 59, 50, 59>> \o Rgb(tbl[((i + FgOffset(n)) % n) + 1]) \o <<109>>
  ELSE IF mode = ColorMode_Foreground THEN
    <<27, 91, 51, 56, 59, 50, 59>> \o Rgb(tbl[(i % n) + 1]) \o <<109>>
  ELSE IF mode = ColorMode_Background THEN
    <<27, 91, 52, 56, 59, 50, 59>> \o Rgb(tbl[(i % n) + 1]) \o <<109>>
  ELSE <<>>

\* whether rainbow.append(buffer, length) stays inside char buffer[64]
FitsBuffer(text) == Len(text) < CellBufferSize

\* what rainbow.append(buffer, length) appends: the formatted text, or, when it
\* did not fit, its first 63 bytes, the terminating NUL and bytes past the buffer
BufferBytes(text, garbage) ==
  IF FitsBuffer(text) THEN text
  ELSE SubSeq(text, 1, CellBufferSize - 1) \o <<0>>
         \o [k \in 1..(Len(text) - CellBufferSize) |-> garbage]

\* lines 216-220
Glyph(i, override) == IF Len(override) > 0 THEN override ELSE <<33 + (i % 94)>>

\* the bytes one iteration of the loop appends to `rainbow`
EncodeCell(i, tbl, n, mode, override, garbage) ==
  BufferBytes(CellEscape(i, tbl, n, mode), garbage) \o Glyph(i, override)

\* the loop bound without the screen_cols cells of padding
RampCount_NoPadding(n, cols) == n

\* count = num_colors + screen_cols (line 186)
RampCount(n, cols) == n + cols

\* the loop of lines 186-221, from iteration i, on the buffer rb and the index ri
RECURSIVE RebuildLoop(_, _, _, _, _, _, _, _, _)
RebuildLoop(i, count, rb, ri, tbl, n, mode, override, garbage) ==
  IF i >= count THEN <<rb, ri>>
  ELSE RebuildLoop(i + 1, count, rb \o EncodeCell(i, tbl, n, mode, override, garbage),
                   Append(ri, Len(rb)), tbl, n, mode, override, garbage)

\* rebuild_rainbow() on the current buffer and index
RebuildRainbow(rb, ri, cols, tbl, n, mode, override, garbage) ==
  RebuildLoop(0, RampCount(n, cols), rb, ri, tbl, n, mode, override, garbage)

\* some cell of a rebuild for `cols` columns overruns char buffer[64]
RebuildOverruns(cols, tbl, n, mode) ==
  \E i \in 0..(RampCount(n, cols) - 1) : ~FitsBuffer(CellEscape(i, tbl, n, mode))

-----------------------------------------------------------------------------
(* Throughput sampler (main, lines 332-344).  A duration is a number of    *)
(* milliseconds, a float a rational [num, den].                            *)

\* the rate with the division by the elapsed time left out
MbpsOf_NoElapsed(w, duration) == [num |-> w, den |-> 1000000]

\* mbps = written / durationCount / 1e6f (line 339), durationCount in seconds
MbpsOf(w, duration) == [num |-> w, den |-> duration * 1000]

\* frames = frame / durationCount (line 340)
FpsOf(f, duration) == [num |-> f * 1000, den |-> duration]

-----------------------------------------------------------------------------
(* Frame assembly (main, lines 299-328).                                   *)

\* sprintf("%.1f fps | %.3f MB/s", frames, mbps); a float is held as a rational
FormatStats(fr, mb) ==
  FormatFixed(fr.num, fr.den, 1) \o <<32, 102, 112, 115, 32, 124, 32>>
    \o FormatFixed(mb.num, mb.den, 3) \o <<32, 77, 66, 47, 115>>

\* std::min(statsLength, screen_cols) (line 300)
StatsTruncate(len, cols) == Min(len, cols)

\* line 311
FirstRowIdx(i, sl, n) == (i + sl) % n

\* the row offset with a stride of one ramp position per row
RowIdx_StrideOne(i, y, n) == (i + y) % n

\* line 319
RowIdx(i, y, n) == (i + y * 2) % n

\* rainbow_indices[idx] and rainbow_indices[idx + width] are elements of the index,
\* and the byte range they give lies in the buffer
LookupOk(rb, ri, idx, width) ==
  /\ idx + width < Len(ri)
  /\ ri[idx + 1] <= ri[idx + width + 1]
  /\ ri[idx + width + 1] <= Len(rb)

\* the slice taken as `width` bytes from beg, not up to the offset of cell idx + width
Slice_ByteWidth(rb, ri, idx, width) == SubSeq(rb, ri[idx + 1] + 1, ri[idx + 1] + width)

\* the bytes output.append(rainbow.data() + beg, end - beg) appends
Slice(rb, ri, idx, width) == SubSeq(rb, ri[idx + 1] + 1, ri[idx + width + 1])

\* the loop of lines 318-324, from row y
RECURSIVE RowsFrom(_, _, _, _, _, _, _)
RowsFrom(y, rows, i, n, cols, rb, ri) ==
  IF y >= rows THEN <<>>
  ELSE Slice(rb, ri, RowIdx(i, y, n), cols) \o RowsFrom(y + 1, rows, i, n, cols, rb, ri)

\* every lookup of one frame assembly is defined
FrameLookupsOk(i, sl, n, cols, rows, rb, ri) ==
  /\ LookupOk(rb, ri, FirstRowIdx(i, sl, n), cols - sl)
  /\ \A y \in 1..(rows - 1) : LookupOk(rb, ri, RowIdx(i, y, n), cols)

\* `output` after lines 302-328
AssembleFrame(i, stats, sl, n, cols, rows, rb, ri) ==
  FramePrefix \o SubSeq(stats, 1, sl)
    \o Slice(rb, ri, FirstRowIdx(i, sl, n), cols - sl)
    \o RowsFrom(1, rows, i, n, cols, rb, ri)
    \o FrameSuffix

-----------------------------------------------------------------------------
(* State.                                                                  *)

VARIABLES
  argv,             \* argv[1..argc-1]
  pc,               \* position of main
  exit_code,        \* -1 while the process runs
  num_colors, color_mode, char_override,
  colors,
  screen_cols, screen_rows, screen_area,
  rainbow, rainbow_indices,
  signal_state,
  mbps, frames, written, frame,
  since_reference,  \* steady_clock::now() - reference at the last clock reading, ms
  output, statsLength,
  i,                \* the loop counter of line 278
  state,            \* the value fetched at line 279
  console,          \* what write_console has written, one entry per call
  ub,               \* the run has executed undefined behaviour
  h_resizes,        \* history: SIGWINCH deliveries
  h_interrupts,     \* history: SIGINT deliveries
  h_stale,          \* history: a SIGWINCH was delivered after the last dimension query
  h_rebuilds,       \* history: calls of rebuild_rainbow
  h_tick_rebuilds,  \* history: calls of rebuild_rainbow since the last fetch
  h_tick_resizes,   \* history: SIGWINCH deliveries taken by the last fetch
  h_pending,        \* history: SIGWINCH deliveries since the last fetch
  h_frames_after_int, \* history: frames written after the first SIGINT delivery
  h_built_cols      \* history: screen_cols of the last rebuild_rainbow, -1 before

vars ==
  <<argv, pc, exit_code, num_colors, color_mode, char_override, colors,
    screen_cols, screen_rows, screen_area, rainbow, rainbow_indices, signal_state,
    mbps, frames, written, frame, since_reference, output, statsLength, i, state,
    console, ub, h_resizes, h_interrupts, h_stale, h_rebuilds, h_tick_rebuilds,
    h_tick_resizes, h_pending, h_frames_after_int, h_built_cols>>

configVars == <<num_colors, color_mode, char_override, colors>>

rampVars == <<screen_cols, screen_rows, screen_area, rainbow, rainbow_indices>>

samplerVars == <<mbps, frames, written, frame, since_reference>>

signalHistory == <<h_resizes, h_interrupts, h_stale, h_pending>>

loopHistory == <<h_rebuilds, h_tick_rebuilds, h_tick_resizes, h_frames_after_int, h_built_cols>>

-----------------------------------------------------------------------------
(* Inputs.                                                                 *)

ArgTokens ==
  {Arg_fg, Arg_bg, Arg_ng, Arg_ch_prefix \o <<101, 57>>, Dec(MaxColors)}

ArgLists == UNION {[1..k -> ArgTokens] : k \in 0..MaxArgs}

\* the argument is a count: it begins with a digit
IsCountArg(arg) == Len(arg) > 0 /\ IsDecDigit(arg[1])

\* options first and one count last, the order of the usage line; the parsed
\* configuration of any other order is that of a list in this order
InUsageOrder(a) ==
  /\ Len(a) >= 1
  /\ IsCountArg(a[Len(a)])
  /\ \A k \in 1..(Len(a) - 1) : ~IsCountArg(a[k])

\* the argument lists explored: those the argc test rejects, and accepted ones in
\* usage order of at most MaxColors colours
InitArgvs ==
  {a \in ArgLists :
     \/ ~ArgcValid(Len(a) + 1)
     \/ (InUsageOrder(a) /\ ParseArgs(a).num_colors <= MaxColors)}

\* what ioctl(TIOCGWINSZ) may leave in `size` as <<ws_col, ws_row>>: the zeroes of
\* a failed call, a narrow terminal of no rows, a wide terminal
QueryDims == {<<0, 0>>, <<SmallCols, 0>>, <<WideCols, MaxRows>>}

\* what the clock may have advanced by when line 335 reads it
TickDurations == {ShortTick, OneSecond}

\* what a read past the end of a buffer may yield
GarbageBytes == {0, 255}

\* printf("%x") of a non-negative integer
RECURSIVE Hex(_)
Hex(n) ==
  LET d == n % 16
      c == IF d < 10 THEN 48 + d ELSE 87 + d
  IN  IF n < 16 THEN <<c>> ELSE Hex(n \div 16) \o <<c>>

\* code points given to -ch= in the start-up runs: the ends of the four ranges of
\* lines 102-114, a surrogate, and the two values next to the end of Unicode
CodePoints ==
  {0, 65, 127, 128, 233, 2047, 2048, 55296, 65535, 65536, 1114111, 1114112, 1114113}

\* arguments that are no option, no code point and no number: "-ch=zz", "-ch=",
\* "-ch=-1", "-ch=0x41", "abc", "-5", "+7", "12x"
OddTokens ==
  {Arg_ch_prefix \o <<122, 122>>, Arg_ch_prefix, Arg_ch_prefix \o <<45, 49>>,
   Arg_ch_prefix \o <<48, 120, 52, 49>>, <<97, 98, 99>>, <<45, 53>>, <<43, 55>>,
   <<49, 50, 120>>}

\* the tokens of the longer argument lists of the start-up runs
CliTokens ==
  {Arg_fg, Arg_ng, Arg_ch_prefix \o Hex(233), Dec(MaxColors), <<97, 98, 99>>}

\* the argument lists of the start-up runs: every count from 0 to one above the
\* maximum, every code point of CodePoints, the odd tokens, and all lists of at
\* most MaxArgs tokens of CliTokens
StartArgvs ==
  {<<Dec(n)>> : n \in 0..(max_rainbow_colors + 1)}
    \cup {<<Arg_ch_prefix \o Hex(c)>> : c \in CodePoints}
    \cup {<<t>> : t \in OddTokens}
    \cup {<<Arg_bg, t>> : t \in OddTokens}
    \cup UNION {[1..k -> CliTokens] : k \in 0..MaxArgs}

\* what write_console was called with
KindOf(bytes) ==
  IF bytes = SetupSeq THEN "setup" ELSE IF bytes = TeardownSeq THEN "teardown" ELSE "frame"

\* the state in which main is entered with one of the argument lists `argvs`
InitFrom(argvs) ==
  /\ argv \in argvs
  /\ pc = "start"
  /\ exit_code = -1
  /\ num_colors = max_rainbow_colors
  /\ color_mode = ColorMode_All
  /\ char_override = <<>>
  /\ colors = <<>>
  /\ screen_cols = 0
  /\ screen_rows = 0
  /\ screen_area = 0
  /\ rainbow = <<>>
  /\ rainbow_indices = <<>>
  /\ signal_state = SignalStateInit
  /\ mbps = [num |-> 0, den |-> 1]
  /\ frames = [num |-> 0, den |-> 1]
  /\ written = 0
  /\ frame = 0
  /\ since_reference = 0
  /\ output = <<>>
  /\ statsLength = 0
  /\ i = 0
  /\ state = 0
  /\ console = <<>>
  /\ ub = FALSE
  /\ h_resizes = 0
  /\ h_interrupts = 0
  /\ h_stale = FALSE
  /\ h_rebuilds = 0
  /\ h_tick_rebuilds = 0
  /\ h_tick_resizes = 0
  /\ h_pending = 0
  /\ h_frames_after_int = 0
  /\ h_built_cols = -1

Init == InitFrom(InitArgvs)

-----------------------------------------------------------------------------
(* main up to the render loop.                                             *)

\* lines 78-81: the argument count is invalid
Main_Usage ==
  /\ pc = "start"
  /\ ~ArgcValid(Len(argv) + 1)
  /\ pc' = "done"
  /\ exit_code' = 1
  /\ UNCHANGED <<argv, configVars, rampVars, signal_state, samplerVars, output,
                 statsLength, i, state, console, ub, signalHistory, loopHistory>>

\* lines 83-126
Main_ParseArgs ==
  /\ pc = "start"
  /\ ArgcValid(Len(argv) + 1)
  /\ LET cfg == ParseArgs(argv)
     IN  /\ num_colors' = cfg.num_colors
         /\ color_mode' = cfg.color_mode
         /\ char_override' = cfg.char_override
  /\ pc' = "colors"
  /\ UNCHANGED <<argv, exit_code, colors, rampVars, signal_state, samplerVars, output,
                 statsLength, i, state, console, ub, signalHistory, loopHistory>>

\* lines 128-172; std::terminate() of line 168 aborts the process
Main_Colors ==
  /\ pc = "colors"
  /\ IF \E k \in 0..(num_colors - 1) : HueToRgb(k, num_colors) = <<>>
     THEN /\ pc' = "aborted"
          /\ UNCHANGED colors
     ELSE /\ pc' = "install"
          /\ colors' = ColorTable(num_colors)
  /\ UNCHANGED <<argv, exit_code, num_colors, color_mode, char_override, rampVars,
                 signal_state, samplerVars, output, statsLength, i, state, console, ub,
                 signalHistory, loopHistory>>

\* lines 260-261: from here on SIGINT and SIGWINCH run signalHandler
Main_Install ==
  /\ pc = "install"
  /\ pc' = "setup"
  /\ UNCHANGED <<argv, exit_code, configVars, rampVars, signal_state, samplerVars, output,
                 statsLength, i, state, console, ub, signalHistory, loopHistory>>

\* lines 264-276
Main_Setup ==
  /\ pc = "setup"
  /\ console' = Append(console, KindOf(SetupSeq))
  /\ mbps' = [num |-> 0, den |-> 1]
  /\ frames' = [num |-> 0, den |-> 1]
  /\ written' = 0
  /\ frame' = 0
  /\ since_reference' = 0
  /\ output' = <<>>
  /\ statsLength' = 0
  /\ i' = 0
  /\ pc' = "fetch"
  /\ UNCHANGED <<argv, exit_code, configVars, rampVars, signal_state, state, ub,
                 signalHistory, loopHistory>>

-----------------------------------------------------------------------------
(* Signal delivery (signalHandler, lines 61-70).                           *)

HandlersInstalled == pc \in {"setup", "fetch", "rebuild", "assemble", "write", "teardown"}

\* case SIGWINCH
Handler_Sigwinch ==
  /\ HandlersInstalled
  /\ h_resizes < MaxResizes
  /\ signal_state' = FetchOr(signal_state, SignalState_Sigwinch)
  /\ h_resizes' = h_resizes + 1
  /\ h_pending' = h_pending + 1
  /\ h_stale' = TRUE
  /\ UNCHANGED <<argv, pc, exit_code, configVars, rampVars, samplerVars, output,
                 statsLength, i, state, console, ub, h_interrupts, loopHistory>>

\* default (SIGINT)
Handler_Sigint ==
  /\ HandlersInstalled
  /\ h_interrupts < MaxInterrupts
  /\ signal_state' = FetchOr(signal_state, SignalState_Sigint)
  /\ h_interrupts' = h_interrupts + 1
  /\ UNCHANGED <<argv, pc, exit_code, configVars, rampVars, samplerVars, output,
                 statsLength, i, state, console, ub, h_resizes, h_stale, h_pending,
                 loopHistory>>

-----------------------------------------------------------------------------
(* The render loop (main, lines 278-345) and the teardown.                 *)

\* the interrupt test as an equality: a fetched set holding both flags does not stop
AfterFetch_SigintAlone(st) ==
  IF st = SignalState_Sigint THEN "teardown"
  ELSE IF HasFlag(st, SignalState_Sigwinch) THEN "rebuild"
  ELSE "assemble"

\* the loop left on any fetched flag
AfterFetch_AnyFlag(st) ==
  IF st # 0 THEN "teardown" ELSE "assemble"

\* the rebuild put off: the tick that fetched the resize assembles first
AfterFetch_NoRebuild(st) ==
  IF HasFlag(st, SignalState_Sigint) THEN "teardown" ELSE "assemble"

\* where the loop goes after the fetch of line 279 (lines 280-283)
AfterFetch(st) ==
  IF HasFlag(st, SignalState_Sigint) THEN "teardown"
  ELSE IF HasFlag(st, SignalState_Sigwinch) THEN "rebuild"
  ELSE "assemble"

\* lines 278-283: signal_state.exchange(0) and the two tests of the fetched value
Main_Fetch ==
  /\ pc = "fetch"
  /\ HasFlag(signal_state, SignalState_Sigint) \/ i < MaxTicks
  /\ state' = signal_state
  /\ signal_state' = AfterExchange(signal_state, NoFlags)
  /\ pc' = AfterFetch(signal_state)
  /\ h_tick_resizes' = h_pending
  /\ h_pending' = 0
  /\ h_tick_rebuilds' = 0
  /\ UNCHANGED <<argv, exit_code, configVars, rampVars, samplerVars, output, statsLength,
                 i, console, ub, h_resizes, h_interrupts, h_stale, h_rebuilds,
                 h_frames_after_int, h_built_cols>>

\* lines 291-295 with rebuild_rainbow (lines 180-222)
Main_Rebuild ==
  /\ pc = "rebuild"
  /\ \E size \in QueryDims :
       LET c == size[1]
           r == size[2]
           overrun == RebuildOverruns(c, colors, num_colors, color_mode)
       IN  \E garbage \in (IF overrun THEN GarbageBytes ELSE {0}) :
             LET built == RebuildRainbow(rainbow, rainbow_indices, c, colors, num_colors,
                                         color_mode, char_override, garbage)
             IN  /\ screen_cols' = c
                 /\ screen_rows' = r
                 /\ screen_area' = c * r
                 /\ rainbow' = built[1]
                 /\ rainbow_indices' = built[2]
                 /\ ub' = (ub \/ overrun)
                 /\ h_built_cols' = c
  /\ pc' = "assemble"
  /\ h_stale' = FALSE
  /\ h_rebuilds' = h_rebuilds + 1
  /\ h_tick_rebuilds' = h_tick_rebuilds + 1
  /\ UNCHANGED <<argv, exit_code, configVars, signal_state, samplerVars, output,
                 statsLength, i, state, console, h_resizes, h_interrupts, h_pending,
                 h_tick_resizes, h_frames_after_int>>

\* lines 299-328.  A lookup outside the index is undefined behaviour: the process
\* is killed, or goes on with a frame that holds no ramp bytes.
Main_Assemble ==
  /\ pc = "assemble"
  /\ LET stats == FormatStats(frames, mbps)
         sl == StatsTruncate(Len(stats), screen_cols)
         ok == /\ sl <= screen_cols
               /\ FrameLookupsOk(i, sl, num_colors, screen_cols, screen_rows,
                                 rainbow, rainbow_indices)
     IN  /\ statsLength' = sl
         /\ \E outcome \in (IF ok THEN {"defined"} ELSE {"killed", "garbage"}) :
              /\ ub' = (ub \/ ~ok)
              /\ pc' = IF outcome = "killed" THEN "crashed" ELSE "write"
              /\ output' = IF outcome = "defined"
                           THEN AssembleFrame(i, stats, sl, num_colors, screen_cols,
                                              screen_rows, rainbow, rainbow_indices)
                           ELSE FramePrefix \o SubSeq(stats, 1, Min(sl, Len(stats)))
                                  \o FrameSuffix
  /\ UNCHANGED <<argv, exit_code, configVars, rampVars, signal_state, samplerVars, i,
                 state, console, signalHistory, loopHistory>>

\* lines 330-344 and the ++i of line 278
Main_Write ==
  /\ pc = "write"
  /\ console' = Append(console, KindOf(output))
  /\ h_frames_after_int' = IF h_interrupts > 0 THEN h_frames_after_int + 1
                           ELSE h_frames_after_int
  /\ \E dt \in TickDurations :
       LET duration == since_reference + dt
           w == written + Len(output)
           f == frame + 1
       IN  IF duration >= OneSecond
           THEN /\ mbps' = MbpsOf(w, duration)
                /\ frames' = FpsOf(f, duration)
                /\ since_reference' = 0
                /\ written' = 0
                /\ frame' = 0
           ELSE /\ since_reference' = duration
                /\ written' = w
                /\ frame' = f
                /\ UNCHANGED <<mbps, frames>>
  /\ i' = i + 1
  /\ pc' = "fetch"
  /\ UNCHANGED <<argv, exit_code, configVars, rampVars, signal_state, output, statsLength,
                 state, ub, signalHistory, h_rebuilds, h_tick_rebuilds, h_tick_resizes,
                 h_built_cols>>

\* the return from main without the write of lines 348-352
Main_Teardown_NoWrite ==
  /\ pc = "teardown"
  /\ pc' = "done"
  /\ exit_code' = 0
  /\ UNCHANGED <<argv, configVars, rampVars, signal_state, samplerVars, output,
                 statsLength, i, state, console, ub, signalHistory, loopHistory>>

\* lines 347-352 and the return from main
Main_Teardown ==
  /\ pc = "teardown"
  /\ console' = Append(console, KindOf(TeardownSeq))
  /\ pc' = "done"
  /\ exit_code' = 0
  /\ UNCHANGED <<argv, configVars, rampVars, signal_state, samplerVars, output,
                 statsLength, i, state, ub, signalHistory, loopHistory>>

-----------------------------------------------------------------------------
(* Specifications.                                                         *)

Main ==
  \/ Main_Usage
  \/ Main_ParseArgs
  \/ Main_Colors
  \/ Main_Install
  \/ Main_Setup
  \/ Main_Fetch
  \/ Main_Rebuild
  \/ Main_Assemble
  \/ Main_Write
  \/ Main_Teardown

Next ==
  \/ Main
  \/ Handler_Sigwinch
  \/ Handler_Sigint

Spec == Init /\ [][Next]_vars

\* main from its entry to the first fetch of the render loop
StartNext ==
  \/ Main_Usage
  \/ Main_ParseArgs
  \/ Main_Colors
  \/ Main_Install
  \/ Main_Setup

StartInit == InitFrom(StartArgvs)

\* the start-up of main for the argument lists StartArgvs
StartSpec == StartInit /\ [][StartNext]_vars

\* the runs of the liveness check: those of no option argument
FairInit == Init /\ Len(argv) # 2

\* the main thread is always scheduled again; signals need not arrive
FairSpec == FairInit /\ [][Next]_vars /\ WF_vars(Main)

-----------------------------------------------------------------------------
(* Vocabulary of the properties.  Nothing below is read by the actions;    *)
(* the properties do their own arithmetic on the program's variables.      *)

Running == pc \in {"fetch", "rebuild", "assemble", "write"}

SigintIn(s) == s % 2 = 1

SigwinchIn(s) == (s \div 2) % 2 = 1

FramesWritten == Cardinality({k \in 1..Len(console) : console[k] = "frame"})

TeardownsWritten == Cardinality({k \in 1..Len(console) : console[k] = "teardown"})

\* cell j of the ramp, encoded on its own
CellOf(j) == EncodeCell(j, colors, num_colors, color_mode, char_override, 0)

\* cells p, p+1, ..., p+w-1, each encoded on its own, concatenated
RECURSIVE CellsOf(_, _)
CellsOf(p, w) == IF w <= 0 THEN <<>> ELSE CellOf(p) \o CellsOf(p + 1, w - 1)

\* the stats line as the current sampler values print it
StatsNow == FormatStats(frames, mbps)

StatsLenNow == IF Len(StatsNow) <= screen_cols THEN Len(StatsNow) ELSE screen_cols

\* index of the final byte of the control sequence whose parameters begin at k
RECURSIVE EscEnd(_, _)
EscEnd(b, k) ==
  IF k >= Len(b) THEN Len(b)
  ELSE IF b[k] \in 64..126 THEN k
  ELSE EscEnd(b, k + 1)

\* number of bytes of the UTF-8 character with this lead byte
GlyphLen(lead) ==
  IF lead < 192 THEN 1 ELSE IF lead < 224 THEN 2 ELSE IF lead < 240 THEN 3 ELSE 4

\* index of the last byte of the cell that begins at k: an optional control
\* sequence ESC [ ... <final>, then one character
CellEnd(b, k) ==
  LET g == IF b[k] = 27 THEN EscEnd(b, k + 2) + 1 ELSE k
  IN  IF g > Len(b) THEN Len(b) ELSE Min(Len(b), g + GlyphLen(b[g]) - 1)

\* the byte string b cut into cells, from byte k on
RECURSIVE CutCells(_, _)
CutCells(b, k) ==
  IF k > Len(b) THEN <<>>
  ELSE LET e == CellEnd(b, k) IN <<SubSeq(b, k, e)>> \o CutCells(b, e + 1)

\* the part of a frame between the stats line and the suffix
FrameBody(f, sl) == SubSeq(f, Len(FramePrefix) + sl + 1, Len(f) - Len(FrameSuffix))

\* the cells of the frame in `output`
OutputCells == CutCells(FrameBody(output, statsLength), 1)

\* the frame in `output` begins with the prefix and the truncated stats line and
\* ends with the suffix
OutputFramed ==
  /\ Len(output) >= Len(FramePrefix) + statsLength + Len(FrameSuffix)
  /\ SubSeq(output, 1, Len(FramePrefix)) = FramePrefix
  /\ SubSeq(output, Len(FramePrefix) + 1, Len(FramePrefix) + statsLength)
       = SubSeq(StatsNow, 1, statsLength)
  /\ SubSeq(output, Len(output) - Len(FrameSuffix) + 1, Len(output)) = FrameSuffix

-----------------------------------------------------------------------------
(* C1.  After every rebuild of the ramp the old buffer and index are gone  *)
(* and the index holds exactly num_colors + cols + 1 offsets for the       *)
(* current cols, the last of them a sentinel equal to the buffer length.   *)
C1_IndexAfterRebuild ==
  (h_rebuilds > 0 /\ pc # "rebuild") =>
    /\ Len(rainbow_indices) = num_colors + screen_cols + 1
    /\ rainbow_indices[Len(rainbow_indices)] = Len(rainbow)

-----------------------------------------------------------------------------
(* C2.  Every slice of every frame equals the concatenation of the         *)
(* independently encoded cells p, p+1, ..., p+w-1: the first row takes     *)
(* position (i + stats_length) mod num_colors and width cols -             *)
(* stats_length, row y >= 1 takes position (i + 2y) mod num_colors and     *)
(* width cols, after any sequence of resizes.                              *)
RECURSIVE C2_RowsExpected(_)
C2_RowsExpected(y) ==
  IF y >= screen_rows THEN <<>>
  ELSE CellsOf((i + 2 * y) % num_colors, screen_cols) \o C2_RowsExpected(y + 1)

C2_SlicesAreCells ==
  pc = "write" =>
    FrameBody(output, statsLength) =
      CellsOf((i + statsLength) % num_colors, screen_cols - statsLength)
        \o C2_RowsExpected(1)

-----------------------------------------------------------------------------
(* C3.  Whenever a frame is assembled, every lookup into the ramp index    *)
(* (idx and idx + width, for the first row and for every row y in          *)
(* 1..rows-1) is inside the index: a rebuild has happened before, the      *)
(* truncated stats length does not exceed cols, and no run executes an     *)
(* out-of-bounds access.                                                   *)
C3_LookupsInBounds ==
  /\ ~ub
  /\ pc # "crashed"
  /\ pc = "assemble" =>
       /\ h_rebuilds >= 1
       /\ StatsLenNow <= screen_cols
       /\ ((i + StatsLenNow) % num_colors) + (screen_cols - StatsLenNow)
            < Len(rainbow_indices)
       /\ \A y \in 1..(screen_rows - 1) :
            ((i + 2 * y) % num_colors) + screen_cols < Len(rainbow_indices)

\* a frame of several wide rows is assembled after a resize, in a later tick
C3_Witness ==
  /\ pc = "assemble"
  /\ h_rebuilds >= 2
  /\ i >= 1
  /\ screen_cols = WideCols
  /\ screen_rows = MaxRows

-----------------------------------------------------------------------------
(* C4 as stated.  No resize is lost: when the process has ended, no        *)
(* delivered resize is left without a later dimension query and rebuild.   *)
C4_EveryResizeRebuilt == pc = "done" => ~h_stale

(* C4, amended.  A resize delivered after the last dimension query is      *)
(* still pending in the flag set, or has been fetched by a tick that is    *)
(* about to requery and rebuild, unless an interrupt was fetched and the   *)
(* loop has stopped.  A tick rebuilds at most once; resizes delivered      *)
(* between two fetches cause exactly one rebuild in the tick that fetched  *)
(* them; a rebuild happens only in a tick whose fetch took the resize flag *)
(* (set at startup or by a delivery), so the rebuilds never outnumber the  *)
(* deliveries plus the initial one.                                        *)
C4_ResizesCoalesced ==
  /\ h_stale => (SigwinchIn(signal_state) \/ pc = "rebuild" \/ pc \in {"teardown", "done"})
  /\ pc = "rebuild" => (SigwinchIn(state) /\ ~SigintIn(state) /\ h_tick_rebuilds = 0)
  /\ h_tick_rebuilds <= 1
  /\ (pc \in {"assemble", "write"} /\ h_tick_resizes > 0) => h_tick_rebuilds = 1
  /\ (pc \in {"assemble", "write"} /\ h_tick_rebuilds = 1) => (i = 0 \/ h_tick_resizes > 0)
  /\ h_rebuilds <= 1 + h_resizes

\* two resizes delivered between two fetches, one rebuild in the tick that took them
C4_Witness ==
  /\ pc = "assemble"
  /\ h_tick_resizes = 2
  /\ h_tick_rebuilds = 1
  /\ h_rebuilds = 2

-----------------------------------------------------------------------------
(* C5.  After an interrupt has been delivered at most one more frame is    *)
(* written; the interrupt flag stays pending until the next fetch, that    *)
(* fetch leaves the loop for the teardown without assembling or writing a  *)
(* frame, and with the main thread scheduled fairly the process ends.      *)
C5_StopsWithinOneTick ==
  /\ [](h_frames_after_int <= 1)
  /\ [](h_interrupts > 0 => (SigintIn(signal_state) \/ pc \in {"teardown", "done"}))
  /\ [][(h_interrupts > 0 /\ pc = "fetch") => pc' \in {"fetch", "teardown"}]_vars
  /\ (h_interrupts > 0) ~> (pc = "done")

\* the interrupt arrived during a tick: that tick's frame was written, then the loop stopped
C5_Witness ==
  /\ pc = "done"
  /\ h_interrupts > 0
  /\ h_frames_after_int = 1

-----------------------------------------------------------------------------
(* C6 as stated.  Every run that has ended wrote the teardown sequence     *)
(* exactly once, after the setup sequence.                                 *)
C6_TeardownInEveryRun ==
  pc = "done" =>
    /\ TeardownsWritten = 1
    /\ Len(console) >= 2
    /\ console[1] = "setup"
    /\ console[Len(console)] = "teardown"

(* C6, amended.  A run that passed the argument-count check and left the   *)
(* render loop wrote the setup sequence first, then only frames, then the  *)
(* teardown sequence once and last; while it runs, the teardown has not    *)
(* been written; a run rejected by the argument-count check wrote nothing. *)
C6_TeardownOnceAndLast ==
  /\ (pc = "done" /\ exit_code = 0) =>
       /\ Len(console) >= 2
       /\ console[1] = "setup"
       /\ console[Len(console)] = "teardown"
       /\ \A k \in 2..(Len(console) - 1) : console[k] = "frame"
  /\ pc # "done" =>
       /\ TeardownsWritten = 0
       /\ \A k \in 2..Len(console) : console[k] = "frame"
       /\ Len(console) >= 1 => console[1] = "setup"
  /\ (pc = "done" /\ exit_code = 1) => console = <<>>

\* a run that wrote frames and was then interrupted
C6_Witness ==
  /\ pc = "done"
  /\ exit_code = 0
  /\ FramesWritten >= 2
  /\ console[Len(console)] = "teardown"

-----------------------------------------------------------------------------
(* C7.  The render loop is left only by the fetch of a flag set that holds *)
(* the interrupt flag, and then for the teardown; no resize, no reported   *)
(* size, no sampler step and no hue or encoding step aborts the process.   *)
C7_OnlyInterruptStops ==
  /\ [](pc \notin {"aborted", "crashed"})
  /\ [][(Running /\ ~Running') => (pc = "fetch" /\ SigintIn(state') /\ pc' = "teardown")]_vars

\* the loop went through two rebuilds, the last one for a terminal of no columns, and
\* a second tick, before an interrupt stopped it
C7_Witness ==
  /\ pc = "teardown"
  /\ SigintIn(state)
  /\ h_rebuilds = 2
  /\ i >= 2
  /\ screen_cols = 0

-----------------------------------------------------------------------------
(* C8.  A tick whose fetch took a resize and no interrupt requeries and    *)
(* rebuilds before it assembles its frame: the frame is assembled with the *)
(* cols and rows of that rebuild (every row after the first is cols cells  *)
(* wide, the first is cols columns wide with the stats line), and the      *)
(* ramp was last rebuilt for the cols in use.                              *)
C8_FrameUsesNewSize ==
  /\ (pc \in {"assemble", "write"} /\ SigwinchIn(state) /\ ~SigintIn(state)) =>
       h_tick_rebuilds = 1
  /\ pc \in {"assemble", "write"} => h_built_cols = screen_cols
  /\ pc = "write" =>
       Len(OutputCells) + statsLength =
         screen_cols * (IF screen_rows >= 1 THEN screen_rows ELSE 1)

\* the frame of a later tick that fetched a resize to the wide size
C8_Witness ==
  /\ pc = "write"
  /\ i >= 1
  /\ h_tick_resizes >= 1
  /\ h_tick_rebuilds = 1
  /\ screen_cols = WideCols
  /\ screen_rows = MaxRows
  /\ Len(OutputCells) + statsLength = WideCols * MaxRows

-----------------------------------------------------------------------------
(* C9 as stated.  The frame has exactly rows rows and stats_length +       *)
(* (cols - stats_length) + (rows - 1) * cols printable columns.            *)
C9_FrameColumns ==
  pc = "write" =>
    Len(OutputCells) + statsLength =
      statsLength + (screen_cols - statsLength) + (screen_rows - 1) * screen_cols

(* C9, amended.  The frame of tick i (i counts the frames written before   *)
(* it) is the prefix, the stats line cut to at most cols bytes, cols -     *)
(* stats_length cells beginning with the cell of ramp position (i +        *)
(* stats_length) mod num_colors, then for each y in 1..rows-1 in order     *)
(* cols cells beginning with the cell of position (i + 2y) mod num_colors, *)
(* then the suffix.  The first row is written even when rows = 0, so the   *)
(* frame has max(rows, 1) rows and max(rows, 1) * cols columns.            *)
C9_RowStart(y) == (screen_cols - statsLength) + (y - 1) * screen_cols + 1

C9_FrameLayout ==
  /\ Running => i = FramesWritten
  /\ pc = "write" =>
       LET cells == OutputCells
       IN  /\ OutputFramed
           /\ statsLength = StatsLenNow
           /\ Len(cells) =
                (screen_cols - statsLength)
                  + ((IF screen_rows >= 1 THEN screen_rows ELSE 1) - 1) * screen_cols
           /\ screen_cols - statsLength > 0 =>
                cells[1] = CellOf((i + statsLength) % num_colors)
           /\ \A y \in 1..(screen_rows - 1) :
                screen_cols > 0 => cells[C9_RowStart(y)] = CellOf((i + 2 * y) % num_colors)

\* the second frame of a run of MaxColors colours on the wide terminal with all rows
C9_Witness ==
  /\ pc = "write"
  /\ i = 1
  /\ num_colors = MaxColors
  /\ screen_cols = WideCols
  /\ screen_rows = MaxRows
  /\ Len(OutputCells) = WideCols * MaxRows - statsLength

-----------------------------------------------------------------------------
(* C10.  The dimensions, the ramp buffer and the ramp index change only in *)
(* the rebuild step of a tick whose fetched flag set holds the resize flag *)
(* and not the interrupt flag; such a tick rebuilds, every other tick does *)
(* not; the first tick rebuilds, the flag set starting with the resize     *)
(* flag.                                                                   *)
C10_RebuildOnlyOnResize ==
  /\ [][(<<rampVars, h_rebuilds>>' # <<rampVars, h_rebuilds>>) =>
          (pc = "rebuild" /\ SigwinchIn(state) /\ ~SigintIn(state)
             /\ h_rebuilds' = h_rebuilds + 1)]_vars
  /\ [](pc \in {"assemble", "write"} =>
          ((h_tick_rebuilds = 1) <=> (SigwinchIn(state) /\ ~SigintIn(state))))
  /\ []((pc \in {"assemble", "write"} /\ i = 0) => h_tick_rebuilds = 1)

\* a later tick that fetched no flag and assembled its frame from the ramp as it was
C10_Witness ==
  /\ pc = "write"
  /\ i >= 1
  /\ state = 0
  /\ h_tick_rebuilds = 0
  /\ h_rebuilds = 1
  /\ screen_cols = WideCols

-----------------------------------------------------------------------------
(* C11.  Every tick adds the bytes of the written frame and one frame to   *)
(* the accumulators.  If the time since the reference is then at least one *)
(* second, the displayed values become fps = frames / elapsed seconds and  *)
(* rate = bytes / elapsed seconds / 10^6, both accumulators are reset to 0 *)
(* and the reference becomes now; otherwise the displayed values and the   *)
(* reference stay and the accumulators keep their sums.  1,000,000 bytes   *)
(* over exactly one second are reported as 1.0 MB/s.                       *)
RECURSIVE C11_Gcd(_, _)
C11_Gcd(a, b) == IF b = 0 THEN a ELSE C11_Gcd(b, a % b)

\* the rational q in lowest terms
C11_Lowest(q) ==
  LET g == C11_Gcd(q.num, q.den)
  IN  IF g = 0 THEN q ELSE [num |-> q.num \div g, den |-> q.den \div g]

\* x units in el milliseconds, as units per second
C11_PerSecond(x, el) == [num |-> x * 1000, den |-> el]

C11_SamplerStep ==
  /\ C11_Lowest(MbpsOf(1000000, 1000)) = [num |-> 1, den |-> 1]
  /\ [][(pc = "write" /\ pc' # "write") =>
          LET bytes == written + Len(output)
              count == frame + 1
          IN  \E dt \in TickDurations :
                LET el == since_reference + dt
                    bps == C11_PerSecond(bytes, el)
                IN  IF el >= 1000
                    THEN /\ C11_Lowest(frames') = C11_Lowest(C11_PerSecond(count, el))
                         /\ C11_Lowest(mbps')
                              = C11_Lowest([num |-> bps.num, den |-> bps.den * 1000000])
                         /\ written' = 0
                         /\ frame' = 0
                         /\ since_reference' = 0
                    ELSE /\ mbps' = mbps
                         /\ frames' = frames
                         /\ written' = bytes
                         /\ frame' = count
                         /\ since_reference' = el]_vars

\* two frames were accumulated over 1.2 seconds and sampled: 5/3 fps
C11_Witness ==
  /\ pc = "fetch"
  /\ i = 2
  /\ frame = 0
  /\ written = 0
  /\ since_reference = 0
  /\ C11_Lowest(frames) = [num |-> 5, den |-> 3]
  /\ mbps.num > 0

-----------------------------------------------------------------------------
(* C12.  Every frame written is the prefix (begin synchronized update,     *)
(* cursor home, colour reset), then the stats bytes, which are plain text, *)
(* then whole encoded cells only, then the end-synchronized-update suffix: *)
(* in every colour mode and after any sequence of resizes each cell of the *)
(* frame is a complete control sequence ESC [ parameters m (none in the    *)
(* mode without colour) followed by a complete glyph, so no slice starts   *)
(* or ends inside a cell and no control sequence is cut.                   *)

\* index of the final byte m of the control sequence whose parameters begin at k;
\* 0 when a byte that is no digit and no semicolon comes first
RECURSIVE C12_ParamsEnd(_, _)
C12_ParamsEnd(b, k) ==
  IF k > Len(b) THEN 0
  ELSE IF b[k] = 109 THEN k
  ELSE IF b[k] \in 48..57 \/ b[k] = 59 THEN C12_ParamsEnd(b, k + 1)
  ELSE 0

\* index of the first glyph byte of the cell that begins at k; 0 when the cell does
\* not begin with the complete control sequence of the colour mode
C12_GlyphStart(b, k) ==
  IF color_mode = 3 THEN k
  ELSE IF k + 2 > Len(b) \/ b[k] # 27 \/ b[k + 1] # 91 THEN 0
  ELSE LET m == C12_ParamsEnd(b, k + 2) IN IF m = 0 THEN 0 ELSE m + 1

\* index of the last byte of the cell that begins at k; 0 when no complete cell
\* begins there
C12_CellEnd(b, k) ==
  LET g == C12_GlyphStart(b, k)
      w == IF char_override = <<>> THEN 1 ELSE Len(char_override)
  IN  IF g = 0 \/ g + w - 1 > Len(b) THEN 0
      ELSE IF char_override = <<>>
           THEN (IF b[g] \in 33..126 THEN g ELSE 0)
           ELSE (IF SubSeq(b, g, g + w - 1) = char_override THEN g + w - 1 ELSE 0)

\* the number of cells b is made of from byte k on; -1 when it is not made of
\* whole cells
RECURSIVE C12_WholeCells(_, _, _)
C12_WholeCells(b, k, count) ==
  IF k > Len(b) THEN count
  ELSE LET e == C12_CellEnd(b, k)
       IN  IF e = 0 THEN -1 ELSE C12_WholeCells(b, e + 1, count + 1)

C12_Prefix == <<27, 91, 63, 50, 48, 50, 54, 104, 27, 91, 72, 27, 91, 51, 57, 59, 52, 57, 109>>

C12_Suffix == <<27, 91, 63, 50, 48, 50, 54, 108>>

C12_FramesWellFormed ==
  pc = "write" =>
    LET p == Len(C12_Prefix)
        q == Len(output) - Len(C12_Suffix)
    IN  /\ q >= p + statsLength
        /\ SubSeq(output, 1, p) = C12_Prefix
        /\ \A k \in (p + 1)..(p + statsLength) : output[k] \in 32..126
        /\ C12_WholeCells(SubSeq(output, p + statsLength + 1, q), 1, 0) >= 0
        /\ SubSeq(output, q + 1, Len(output)) = C12_Suffix

\* a frame of coloured cells with a two-byte glyph, written after a resize to the
\* wide terminal
C12_Witness ==
  /\ pc = "write"
  /\ h_rebuilds = 2
  /\ color_mode = 0
  /\ Len(char_override) = 2
  /\ screen_cols = WideCols
  /\ C12_WholeCells(SubSeq(output, Len(C12_Prefix) + statsLength + 1,
                            Len(output) - Len(C12_Suffix)), 1, 0)
       = WideCols * MaxRows - statsLength

-----------------------------------------------------------------------------
(* C13.  For every accepted argument list num_colors is in 1..1530 after   *)
(* the arguments are parsed: 1530 when no count is given, the count itself *)
(* when it is in range, 1 for the count 0 and 1530 for a count above 1530. *)
(* A count out of range is no error: the run goes on to the render loop.   *)
(* So the loop never takes a remainder by zero, and a ramp position modulo *)
(* num_colors is always an entry of the colour table.                      *)

\* the argument is an option: -fg, -bg, -ng or -ch=...
C13_IsOption(arg) ==
  \/ arg \in {<<45, 102, 103>>, <<45, 98, 103>>, <<45, 110, 103>>}
  \/ (Len(arg) >= 4 /\ SubSeq(arg, 1, 4) = <<45, 99, 104, 61>>)

\* the number a string of decimal digits denotes, read from its last digit on;
\* -1 for the empty string and for a string with another byte
RECURSIVE C13_Number(_)
C13_Number(arg) ==
  IF arg = <<>> THEN -1
  ELSE LET last == arg[Len(arg)]
           rest == SubSeq(arg, 1, Len(arg) - 1)
       IN  IF last \notin 48..57 THEN -1
           ELSE IF rest = <<>> THEN last - 48
           ELSE IF C13_Number(rest) < 0 THEN -1
           ELSE 10 * C13_Number(rest) + (last - 48)

C13_NumColorsClamped ==
  /\ pc \notin {"aborted", "crashed"}
  /\ pc = "done" => Len(argv) > 2
  /\ Len(argv) > 2 => pc \in {"start", "done"}
  /\ pc \notin {"start", "done"} =>
       /\ num_colors >= 1
       /\ num_colors <= 1530
       /\ (\A k \in 1..Len(argv) : C13_IsOption(argv[k])) => num_colors = 1530
       /\ \A k \in 1..Len(argv) :
            (C13_Number(argv[k]) >= 0 /\ \A j \in (k + 1)..Len(argv) : C13_IsOption(argv[j])) =>
              LET count == C13_Number(argv[k])
              IN  num_colors = IF count = 0 THEN 1 ELSE IF count > 1530 THEN 1530 ELSE count
  /\ pc \in {"install", "setup", "fetch"} =>
       /\ Len(colors) = num_colors
       /\ \A p \in {0, num_colors - 1, num_colors, 2 * num_colors + 1} :
            (p % num_colors) + 1 \in DOMAIN colors

\* the run of the count 1531 has reached the render loop with 1530 colours
C13_Witness ==
  /\ pc = "fetch"
  /\ argv = <<<<49, 53, 51, 49>>>>
  /\ num_colors = 1530
  /\ console = <<"setup">>

-----------------------------------------------------------------------------
(* C14.  A run whose arguments hold a count that is not a number, or a     *)
(* -ch= value that is not a code point, ends with a non-zero exit code     *)
(* before anything is built: it writes no setup sequence, builds no ramp   *)
(* and never reaches the render loop.                                      *)

\* the code point a string of hexadecimal digits denotes; -1 for the empty string,
\* for a string with another byte, and for a value beyond 0x10FFFF
RECURSIVE C14_CodePoint(_)
C14_CodePoint(text) ==
  IF text = <<>> THEN -1
  ELSE LET last == text[Len(text)]
           rest == SubSeq(text, 1, Len(text) - 1)
           digit == IF last \in 48..57 THEN last - 48
                    ELSE IF last \in 65..70 THEN last - 55
                    ELSE IF last \in 97..102 THEN last - 87
                    ELSE -1
           high == IF rest = <<>> THEN 0 ELSE C14_CodePoint(rest)
       IN  IF digit < 0 \/ high < 0 \/ 16 * high + digit > 1114111 THEN -1
           ELSE 16 * high + digit

C14_IsGlyphArg(arg) == Len(arg) >= 4 /\ SubSeq(arg, 1, 4) = <<45, 99, 104, 61>>

\* malformed beyond doubt: a count without any digit, a -ch= value without any
\* hexadecimal digit, or hexadecimal digits that denote a value beyond 0x10FFFF
C14_Malformed(arg) ==
  LET text == SubSeq(arg, 5, Len(arg))
      hex == {k \in 1..Len(text) :
                text[k] \in 48..57 \/ text[k] \in 65..70 \/ text[k] \in 97..102}
  IN  \/ (C14_IsGlyphArg(arg) /\ hex = {})
      \/ (C14_IsGlyphArg(arg) /\ hex = 1..Len(text) /\ C14_CodePoint(text) < 0)
      \/ (~C13_IsOption(arg) /\ \A k \in 1..Len(arg) : arg[k] \notin 48..57)

C14_MalformedRejected ==
  (\E k \in 1..Len(argv) : C14_Malformed(argv[k])) =>
    /\ console = <<>>
    /\ rainbow = <<>>
    /\ pc # "fetch"
    /\ pc = "done" => exit_code > 0

-----------------------------------------------------------------------------
(* C15.  A run is rejected (usage message, exit code 1) exactly when its   *)
(* argument count is invalid: every argument list of the grammar - at most *)
(* one of -fg, -bg, -ng, at most one -ch=<hex> and at most one count, in   *)
(* any combination up to all three together - is accepted and goes on to   *)
(* the render loop; it is never rejected with the usage message.           *)

C15_Modes(a) == {k \in 1..Len(a) : a[k] \in {<<45, 102, 103>>, <<45, 98, 103>>, <<45, 110, 103>>}}

C15_Glyphs(a) ==
  {k \in 1..Len(a) : C14_IsGlyphArg(a[k]) /\ C14_CodePoint(SubSeq(a[k], 5, Len(a[k]))) >= 0}

C15_Counts(a) == {k \in 1..Len(a) : C13_Number(a[k]) >= 0}

C15_InGrammar(a) ==
  /\ C15_Modes(a) \cup C15_Glyphs(a) \cup C15_Counts(a) = 1..Len(a)
  /\ Cardinality(C15_Modes(a)) <= 1
  /\ Cardinality(C15_Glyphs(a)) <= 1
  /\ Cardinality(C15_Counts(a)) <= 1

C15_GrammarAccepted ==
  C15_InGrammar(argv) =>
    /\ ~(pc = "done" /\ exit_code = 1)
    /\ pc \notin {"aborted", "crashed"}

-----------------------------------------------------------------------------
(* C16 as stated.  For every num_colors in 1..1530 each channel of every   *)
(* ramp position is in 0..255, and any two consecutive positions differ in *)
(* at most one channel by more than a rounding unit.                       *)

C16_Abs(x) == IF x < 0 THEN -x ELSE x

\* the channels in which the colours c and d differ by more than `unit`
C16_Apart(c, d, unit) == {ch \in 1..3 : C16_Abs(c[ch] - d[ch]) > unit}

C16_InRange(c) == \A ch \in 1..3 : c[ch] >= 0 /\ c[ch] <= 255

C16_SmoothForAll ==
  pc = "install" =>
    /\ \A p \in 1..num_colors : C16_InRange(colors[p])
    /\ \A p \in 1..(num_colors - 1) :
         Cardinality(C16_Apart(colors[p], colors[p + 1], 1)) <= 1

(* C16, amended.  For every num_colors in 1..1530 and every position the   *)
(* sector is in 0..5, v = floor(256 * (h mod 60) / 60) is in 0..255 and    *)
(* the colour is the sector's formula of v without any wrap-around, so     *)
(* each channel is in 0..255.  Two consecutive positions of the same       *)
(* sector differ in one channel at most; any two consecutive positions     *)
(* differ in at most one channel by more than a rounding unit when         *)
(* num_colors is a multiple of 6 or at least 384.                          *)

\* h / 60 = 6 * position / num_colors: its integer part
C16_Sector(position) == (6 * position) \div num_colors

\* v read back from the colour of a position of sector sec
C16_VOf(c, sec) ==
  CASE sec = 0 -> c[2]
    [] sec = 1 -> 255 - c[1]
    [] sec = 2 -> c[3]
    [] sec = 3 -> 255 - c[2]
    [] sec = 4 -> c[1]
    [] OTHER -> 255 - c[3]

\* the colour of sector sec for v, in plain integers
C16_Formula(sec, v) ==
  CASE sec = 0 -> <<255, v, 0>>
    [] sec = 1 -> <<255 - v, 255, 0>>
    [] sec = 2 -> <<0, 255, v>>
    [] sec = 3 -> <<0, 255 - v, 255>>
    [] sec = 4 -> <<v, 0, 255>>
    [] OTHER -> <<255, 0, 255 - v>>

C16_PositionOk(position) ==
  LET c == colors[position + 1]
      sec == C16_Sector(position)
      v == C16_VOf(c, sec)
      part == (6 * position) % num_colors
  IN  /\ sec \in 0..5
      /\ v \in 0..255
      /\ v * num_colors <= 256 * part
      /\ 256 * part < (v + 1) * num_colors
      /\ c = C16_Formula(sec, v)
      /\ C16_InRange(c)

C16_ChannelsInRange ==
  /\ pc # "aborted"
  /\ pc = "install" =>
       /\ Len(colors) = num_colors
       /\ \A position \in 0..(num_colors - 1) : C16_PositionOk(position)
       /\ \A position \in 0..(num_colors - 2) :
            /\ C16_Sector(position) = C16_Sector(position + 1) =>
                 Cardinality(C16_Apart(colors[position + 1], colors[position + 2], 0)) <= 1
            /\ (num_colors % 6 = 0 \/ num_colors >= 384) =>
                 Cardinality(C16_Apart(colors[position + 1], colors[position + 2], 1)) <= 1

\* the table of 384 colours: the step from sector 0 into sector 1 changes one
\* channel, by three
C16_Witness ==
  /\ pc = "install"
  /\ num_colors = 384
  /\ colors[64] = <<255, 252, 0>>
  /\ colors[65] = <<255, 255, 0>>

-----------------------------------------------------------------------------
(* C17.  With num_colors = 1530 no two adjacent ramp positions, the cyclic *)
(* pair 1529 and 0 included, have the same colour.                         *)
C17_AdjacentDistinct ==
  (pc = "install" /\ num_colors = 1530) =>
    /\ Len(colors) = 1530
    /\ \A p \in 1..1529 : colors[p] # colors[p + 1]
    /\ colors[1530] # colors[1]

\* the table of the default 1530 colours is built, last entry and first entry one
\* step of blue apart
C17_Witness ==
  /\ pc = "install"
  /\ argv = <<>>
  /\ num_colors = 1530
  /\ colors[1530] = <<255, 0, 1>>
  /\ colors[1] = <<255, 0, 0>>

-----------------------------------------------------------------------------
(* C18.  A rebuild is determined by num_colors, cols, the colour mode and  *)
(* the glyph: a rebuild for the cols of the rebuild before it (the other   *)
(* three are fixed for the run) leaves the same bytes in the ramp buffer   *)
(* and the same offsets in the index as that rebuild did.                  *)
C18_RebuildDeterministic ==
  [][(pc = "rebuild" /\ pc' = "assemble" /\ h_rebuilds >= 1 /\ screen_cols' = screen_cols) =>
       (rainbow' = rainbow /\ rainbow_indices' = rainbow_indices)]_vars

-----------------------------------------------------------------------------
(* C19.  After a rebuild the index starts with offset 0 and does not       *)
(* decrease, offset[i] is the start of cell i in the buffer, and the bytes *)
(* of cell i (up to offset[i+1]; up to the end of the buffer for the last  *)
(* offset) are at most 64 and at least as many as the shortest control     *)
(* sequence of the colour mode; the formatting buffer is never overrun.    *)

\* the shortest control sequence of the colour mode: ESC [ 4 8 ; 2 ; 0 ; 0 ; 0 m
\* for one colour, with ; 3 8 ; 2 ; 0 ; 0 ; 0 more for both, nothing without colour
C19_MinEscape == IF color_mode = 3 THEN 0 ELSE IF color_mode = 0 THEN 24 ELSE 13

\* the bytes the buffer holds from offset[j] up to the next offset
C19_StoredCell(j) ==
  SubSeq(rainbow, rainbow_indices[j] + 1,
         IF j < Len(rainbow_indices) THEN rainbow_indices[j + 1] ELSE Len(rainbow))

C19_IndexInvariant ==
  /\ ~ub
  /\ (h_rebuilds > 0 /\ pc # "rebuild" /\ rainbow_indices # <<>>) =>
       /\ rainbow_indices[1] = 0
       /\ \A j \in 1..(Len(rainbow_indices) - 1) : rainbow_indices[j] <= rainbow_indices[j + 1]
       /\ \A j \in 1..Len(rainbow_indices) :
            /\ Len(C19_StoredCell(j)) <= 64
            /\ Len(C19_StoredCell(j)) >= C19_MinEscape
            /\ C19_StoredCell(j) = CellOf(j - 1)

-----------------------------------------------------------------------------
(* C20.  When the one argument is -ch= followed by hexadecimal digits that *)
(* denote c, the glyph override is the UTF-8 encoding of c, of 1, 2, 3 or  *)
(* 4 bytes for c below 0x80, 0x800, 0x10000 and up to 0x10FFFF, and there  *)
(* is no override when c is beyond 0x10FFFF.                               *)

\* the value a string of hexadecimal digits denotes (at most 0xFFFFFF); -1 for
\* the empty string and for a string with another byte
RECURSIVE C20_Value(_)
C20_Value(text) ==
  IF text = <<>> THEN -1
  ELSE LET last == text[Len(text)]
           rest == SubSeq(text, 1, Len(text) - 1)
           digit == IF last \in 48..57 THEN last - 48
                    ELSE IF last \in 65..70 THEN last - 55
                    ELSE IF last \in 97..102 THEN last - 87
                    ELSE -1
           high == IF rest = <<>> THEN 0 ELSE C20_Value(rest)
       IN  IF digit < 0 \/ high < 0 THEN -1
           ELSE IF 16 * high + digit > 16777215 THEN 16777215
           ELSE 16 * high + digit

\* the value a UTF-8 sequence of 1 to 4 bytes carries; -1 when the lead byte does
\* not announce its length or a later byte is not a continuation byte
C20_Decode(bytes) ==
  LET n == Len(bytes)
      cont(k) == bytes[k] \in 128..191
  IN  IF n = 1 /\ bytes[1] \in 0..127 THEN bytes[1]
      ELSE IF n = 2 /\ bytes[1] \in 192..223 /\ cont(2)
        THEN 64 * (bytes[1] - 192) + (bytes[2] - 128)
      ELSE IF n = 3 /\ bytes[1] \in 224..239 /\ cont(2) /\ cont(3)
        THEN 4096 * (bytes[1] - 224) + 64 * (bytes[2] - 128) + (bytes[3] - 128)
      ELSE IF n = 4 /\ bytes[1] \in 240..247 /\ cont(2) /\ cont(3) /\ cont(4)
        THEN 262144 * (bytes[1] - 240) + 4096 * (bytes[2] - 128)
               + 64 * (bytes[3] - 128) + (bytes[4] - 128)
      ELSE -1

C20_LengthOf(c) == IF c < 128 THEN 1 ELSE IF c < 2048 THEN 2 ELSE IF c < 65536 THEN 3 ELSE 4

C20_OverrideIsUtf8 ==
  (/\ pc \notin {"start", "done"}
   /\ Len(argv) = 1
   /\ C14_IsGlyphArg(argv[1])
   /\ C20_Value(SubSeq(argv[1], 5, Len(argv[1]))) >= 0) =>
    LET c == C20_Value(SubSeq(argv[1], 5, Len(argv[1])))
    IN  IF c > 1114111 THEN char_override = <<>>
        ELSE /\ Len(char_override) = C20_LengthOf(c)
             /\ C20_Decode(char_override) = c

====
